---- MODULE Spec2Model ----
(***************************************************************************)
(* Model of linkerd-tcp's src/app.rs: AppConfig::from_str, the topology   *)
(* builder (AppConfig::into_app, RouterConfig::into_router),               *)
(* RouterSpawner::spawn, AdminRunner::run, the shutdown latch (closer) and *)
(* the shared transfer buffer.                                             *)
(*                                                                         *)
(* Option<T> is modelled as a sequence: None is <<>>, Some(v) is <<v>>.    *)
(* Result<T> is a record [ok, val, err].  An Rc is a record [ptr, size]:   *)
(* two Rc values denote the same allocation iff their ptr is equal.        *)
(***************************************************************************)
EXTENDS Integers, Sequences, FiniteSets, TLC

\* ------------------------------------------------------------------ bounds
MaxRouters == 2
MaxServers == 2
MaxTime == 2
MaxConns == 2
MaxReqs == 2
MaxCount == 2
MaxTicks == 3
MaxText == 4

\* ------------------------------------------------------- program constants
DEFAULT_ADMIN_PORT == 9989
DEFAULT_BUFFER_SIZE_BYTES == 16 * 1024
DEFAULT_GRACE_SECS == 10
DEFAULT_METRICS_INTERVAL_SECS == 60

\* --------------------------------------------------------- Option / Result
None == <<>>
Some(v) == <<v>>
unwrap_or(o, d) == IF o = None THEN d ELSE o[1]
\* Option::and_then applied to the admin block: a.<field> of Some(a), else None
and_then(o, field) == IF o = None THEN None ELSE o[1][field]

Ok(v) == [ok |-> TRUE, val |-> v, err |-> None]
Err(kind, rt) == [ok |-> FALSE, val |-> None, err |-> Some([kind |-> kind, rt |-> rt])]

localhost_addr == <<127, 0, 0, 1>>

\* ------------------------------------------------------------ collaborators
\* NamerdConfig::into_namerd: the interpreter's config-to-client translation.
into_namerd(config, rt) ==
    IF config.valid THEN Ok([rt |-> rt]) ELSE Err("Interpreter", rt)

\* resolver::new: one (Resolver, Executor) pair per namerd client.
resolver_new(namerd) ==
    [resolver |-> [rt |-> namerd.rt], exec |-> [rt |-> namerd.rt]]

\* ConnectorFactoryConfig::default() and mk_connector_factory.
ConnectorDefault == [valid |-> TRUE]
mk_connector_factory(config, rt) ==
    IF config.valid THEN Ok([rt |-> rt]) ELSE Err("Connector", rt)

\* ServerConfig::mk_server: an Unbound server holding the router and the buffer.
mk_server(config, router, buf) ==
    IF config.valid
    THEN Ok([listen |-> config.port, rt |-> router.rt, buf |-> buf])
    ELSE Err("Server", router.rt)

\* ------------------------------------------------------------ Rc<RefCell<_>>
Rc_new(sz) == [ptr |-> 1, size |-> sz]
\* Variant of Rc_clone that allocates a copy instead of sharing.
Rc_clone_copy(rc) == [rc EXCEPT !.ptr = rc.ptr + 1]
Rc_clone(rc) == rc

\* ------------------------------------------------- RouterConfig::into_router
\* Variant of mk_servers that drops a failing server and goes on.
RECURSIVE mk_servers_skip(_, _, _, _)
mk_servers_skip(cfgs, router, buf, servers) ==
    IF cfgs = <<>> THEN Ok(servers)
    ELSE LET server == mk_server(Head(cfgs), router, Rc_clone(buf))
         IN  IF ~server.ok
             THEN mk_servers_skip(Tail(cfgs), router, buf, servers)
             ELSE mk_servers_skip(Tail(cfgs), router, buf, Append(servers, server.val))

\* The loop over self.servers.drain(..): the first mk_server error is returned.
RECURSIVE mk_servers(_, _, _, _)
mk_servers(cfgs, router, buf, servers) ==
    IF cfgs = <<>> THEN Ok(servers)
    ELSE LET server == mk_server(Head(cfgs), router, Rc_clone(buf))
         IN  IF ~server.ok
             THEN server
             ELSE mk_servers(Tail(cfgs), router, buf, Append(servers, server.val))

into_router(config, buf) ==
    LET rt == config.label
        namerd == into_namerd(config.interpreter, rt)
    IN  IF ~namerd.ok THEN namerd
        ELSE
        LET pair == resolver_new(namerd.val)
            client == mk_connector_factory(unwrap_or(config.client, ConnectorDefault), rt)
        IN  IF ~client.ok THEN client
            ELSE
            LET router == [rt |-> rt, resolver |-> pair.resolver, balancer |-> client.val]
                servers == mk_servers(config.servers, router, buf, <<>>)
            IN  IF ~servers.ok THEN servers
                ELSE Ok([servers |-> servers.val,
                         resolver_executor |-> Some(pair.exec),
                         rt |-> rt])

\* ---------------------------------------------------- AppConfig::into_app
BufferSize(config) == unwrap_or(config.buffer_size_bytes, DEFAULT_BUFFER_SIZE_BYTES)

\* Variant of push_back that queues the executor at the front.
push_front_resolver(acc, r, e) ==
    [routers |-> Append(acc.routers, r), resolvers |-> <<e>> \o acc.resolvers]
\* routers.push_back(r); resolvers.push_back(e)
push_back(acc, r, e) ==
    [routers |-> Append(acc.routers, r), resolvers |-> Append(acc.resolvers, e)]

\* The result of the loop over self.routers.drain(..):
\*   state "ok" with both queues, "err" with the first error, or "panic".
LoopOk(acc) == [state |-> "ok", routers |-> acc.routers, resolvers |-> acc.resolvers, err |-> None]
LoopErr(e) == [state |-> "err", routers |-> <<>>, resolvers |-> <<>>, err |-> e]
LoopPanic == [state |-> "panic", routers |-> <<>>, resolvers |-> <<>>, err |-> None]

\* Variant of routers_loop that drops a failing router and goes on.
RECURSIVE routers_loop_skip(_, _, _)
routers_loop_skip(cfgs, buf, acc) ==
    IF cfgs = <<>> THEN LoopOk(acc)
    ELSE LET res == into_router(Head(cfgs), Rc_clone(buf))
         IN  IF ~res.ok THEN routers_loop_skip(Tail(cfgs), buf, acc)
             ELSE LET r == res.val
                  IN  IF r.resolver_executor = None THEN LoopPanic
                      ELSE routers_loop_skip(Tail(cfgs), buf,
                               push_back(acc, [r EXCEPT !.resolver_executor = None],
                                         r.resolver_executor[1]))

\* Variant of routers_loop that copies the executor out and leaves it in the slot.
RECURSIVE routers_loop_keep(_, _, _)
routers_loop_keep(cfgs, buf, acc) ==
    IF cfgs = <<>> THEN LoopOk(acc)
    ELSE LET res == into_router(Head(cfgs), Rc_clone(buf))
         IN  IF ~res.ok THEN LoopErr(res.err)
             ELSE LET r == res.val
                  IN  IF r.resolver_executor = None THEN LoopPanic
                      ELSE routers_loop_keep(Tail(cfgs), buf,
                               push_back(acc, r, r.resolver_executor[1]))

RECURSIVE routers_loop(_, _, _)
routers_loop(cfgs, buf, acc) ==
    IF cfgs = <<>> THEN LoopOk(acc)
    ELSE LET res == into_router(Head(cfgs), Rc_clone(buf))
         IN  IF ~res.ok THEN LoopErr(res.err)
             ELSE LET r == res.val
                  IN  IF r.resolver_executor = None THEN LoopPanic
                      ELSE routers_loop(Tail(cfgs), buf,
                               push_back(acc, [r EXCEPT !.resolver_executor = None],
                                         r.resolver_executor[1]))

\* Variant of AdminAddr that honours the port only when the ip is given too.
AdminAddr_port_with_ip(config) ==
    IF and_then(config.admin, "ip") = None
    THEN [ip |-> localhost_addr, port |-> DEFAULT_ADMIN_PORT]
    ELSE [ip |-> and_then(config.admin, "ip")[1],
          port |-> unwrap_or(and_then(config.admin, "port"), DEFAULT_ADMIN_PORT)]
AdminAddr(config) ==
    [ip |-> unwrap_or(and_then(config.admin, "ip"), localhost_addr),
     port |-> unwrap_or(and_then(config.admin, "port"), DEFAULT_ADMIN_PORT)]

\* Variant of Grace that reads the neighbouring admin field.
Grace_from_metrics_interval(config) ==
    unwrap_or(and_then(config.admin, "metrics_interval_secs"), DEFAULT_GRACE_SECS)
Grace(config) ==
    unwrap_or(and_then(config.admin, "grace_secs"), DEFAULT_GRACE_SECS)

MetricsInterval(config) ==
    unwrap_or(and_then(config.admin, "metrics_interval_secs"), DEFAULT_METRICS_INTERVAL_SECS)

\* The App (or the error) into_app returns.  buf is the allocation made at the
\* top of into_app, kept here to name the instance the servers must share.
into_app(config) ==
    LET buf == Rc_new(BufferSize(config))
        loop == routers_loop(config.routers, buf, [routers |-> <<>>, resolvers |-> <<>>])
    IN  IF loop.state # "ok"
        THEN [state |-> loop.state, routers |-> <<>>, admin |-> None,
              err |-> loop.err, buf |-> buf]
        ELSE [state |-> "ok",
              routers |-> loop.routers,
              admin |-> Some([addr |-> AdminAddr(config),
                              resolvers |-> loop.resolvers,
                              grace |-> Grace(config),
                              metrics_interval |-> MetricsInterval(config)]),
              err |-> None,
              buf |-> buf]

NoApp == [state |-> "none", routers |-> <<>>, admin |-> None, err |-> None, buf |-> Rc_new(0)]

\* ------------------------------------------------------------ configurations
\* A router's structure: how many servers it declares and whether it has a
\* client block.
Structs == [n : 0..MaxServers, client : BOOLEAN]
StructSeqs == UNION { [1..n -> Structs] : n \in 0..MaxRouters }

\* The translations a configuration goes through, in the order the build makes
\* them: <<r, 0>> router r's interpreter, <<r, 1>> its client block,
\* <<r, j + 1>> its j-th server.
Positions(st) ==
    { p \in (1..Len(st)) \X (0..(MaxServers + 1)) :
        \/ p[2] = 0
        \/ p[2] = 1 /\ st[p[1]].client
        \/ p[2] >= 2 /\ p[2] - 1 <= st[p[1]].n }
Before(p, q) == p[1] < q[1] \/ (p[1] = q[1] /\ p[2] < q[2])

\* Which translations fail: none, or the one at `at`, with the ones after it
\* all valid or all invalid.
NoFault == [at |-> <<0, 0>>, rest |-> TRUE]
Faults(st) == {NoFault} \cup { [at |-> p, rest |-> b] : p \in Positions(st), b \in BOOLEAN }
ValidAt(f, p) ==
    IF f.at = <<0, 0>> \/ Before(p, f.at) THEN TRUE
    ELSE IF p = f.at THEN FALSE
    ELSE f.rest

MkServers(r, n, f) ==
    IF n = 0 THEN <<>>
    ELSE [j \in 1..n |-> [port |-> 10 * r + j, valid |-> ValidAt(f, <<r, j + 1>>)]]
MkRouter(r, st, f) ==
    [label |-> r,
     servers |-> MkServers(r, st.n, f),
     client |-> IF st.client THEN Some([valid |-> ValidAt(f, <<r, 1>>)]) ELSE None,
     interpreter |-> [valid |-> ValidAt(f, <<r, 0>>)]]
MkRouters(st, f) ==
    IF Len(st) = 0 THEN <<>> ELSE [r \in 1..Len(st) |-> MkRouter(r, st[r], f)]

\* Routers of a running process: every translation succeeds and every router
\* declares one server.
RunStruct == [n |-> 1, client |-> FALSE]
RunRouterSeqs == { MkRouters([r \in 1..n |-> RunStruct], NoFault) : n \in 0..MaxRouters }

AdminAllOmitted == [port |-> None, ip |-> None, metrics_interval_secs |-> None, grace_secs |-> None]
AdminAllGiven ==
    [port |-> Some(8080), ip |-> Some(<<10, 0, 0, 1>>),
     metrics_interval_secs |-> Some(5), grace_secs |-> Some(1)]
AdminGraceOnly == [AdminAllOmitted EXCEPT !.grace_secs = Some(0)]
AdminBlocks == {None, Some(AdminAllOmitted), Some(AdminAllGiven), Some(AdminGraceOnly)}

RunConfigs ==
    { [admin |-> a, routers |-> rs, buffer_size_bytes |-> None] :
        a \in AdminBlocks, rs \in RunRouterSeqs }

\* Every combination of present and omitted admin fields, and no admin block.
AdminCombos ==
    {None} \cup
    { Some([port |-> p, ip |-> i, metrics_interval_secs |-> m, grace_secs |-> g]) :
        p \in {None, AdminAllGiven.port}, i \in {None, AdminAllGiven.ip},
        m \in {None, AdminAllGiven.metrics_interval_secs},
        g \in {None, AdminAllGiven.grace_secs} }

\* Configurations that vary the admin block and the buffer size.
AdminConfigs ==
    { [admin |-> a, routers |-> rs, buffer_size_bytes |-> b] :
        a \in AdminBlocks \cup AdminCombos, rs \in RunRouterSeqs, b \in {None, Some(4)} }

\* ------------------------------------------------------------------- state
VARIABLES
    config,        \* the AppConfig handed to into_app
    app,           \* what into_app returned (NoApp before the build)
    servingPc,     \* main thread: "parse", "build", "spawning", "running", "panicked", "exit"
    spawning,      \* App.routers: the RouterSpawners not yet fully spawned
    bound,         \* bound servers launched on the serving reactor, in order
    adminPc,       \* admin thread: "none", "start", "resolvers", "bind", "serving",
                   \* "panicked", "returned"
    resolvers,     \* AdminRunner::run's resolvers queue
    polling,       \* executor tasks launched on the admin reactor, in order
    reporting,     \* the metrics-export task has been spawned
    adminListener, \* the admin listener is bound
    now,           \* the clock, in seconds
    latch,         \* the shutdown latch (closer)
    driver,        \* the serving driver: [state, deadline]
    live,          \* indices into bound of the servers still running
    abandoned,     \* servers abandoned at the deadline
    conns,         \* admin connections in accept order: "open", "served", "failed", "closed"
    failMark,      \* connections accepted when the first serve failure happened (0: none yet)
    sendCount,     \* sends performed on the latch
    firedAt,       \* the clock at the first send
    reqs,          \* shutdown requests handled
    counter,       \* the reporter's accumulated count
    recorded,      \* every count recorded so far
    snapshots,     \* the reports taken so far
    prom_export,   \* the metrics-export buffer
    scraped,       \* the body of the last metrics response
    txt,           \* the configuration text handed to from_str (None: given parsed)
    parsed,        \* what from_str returned (None before the call)
    binds,         \* the calls of Unbound::bind made so far: [listen, ok]
    holders,       \* bound servers whose copy operation holds a borrow of its buffer
    firedMark      \* connections accepted and snapshots taken when the latch fired

vars ==
    <<config, app, servingPc, spawning, bound, adminPc, resolvers, polling, reporting,
      adminListener, now, latch, driver, live, abandoned, conns, failMark, sendCount,
      firedAt, reqs, counter, recorded, snapshots, prom_export, scraped,
      txt, parsed, binds, holders, firedMark>>

startupVars ==
    <<app, servingPc, spawning, bound, adminPc, resolvers, polling, reporting, adminListener>>
runVars == <<now, driver, live, abandoned, conns, failMark, sendCount, firedAt, reqs>>
driverVars == <<now, driver, live, abandoned>>
metricsVars == <<counter, recorded, snapshots, prom_export, scraped>>
parseVars == <<txt, parsed>>

\* ------------------------------------------------------- the shutdown latch
\* closer(): sync::oneshot::channel().
closer == [tx |-> "held", slot |-> None, rx |-> "waiting"]

\* String::with_capacity(8 * 1024): the empty metrics-export buffer.
EmptyString == <<>>

InitWith(cfg, text, pc) ==
    /\ config = cfg
    /\ app = NoApp
    /\ servingPc = pc
    /\ spawning = <<>>
    /\ bound = <<>>
    /\ adminPc = "none"
    /\ resolvers = <<>>
    /\ polling = <<>>
    /\ reporting = FALSE
    /\ adminListener = FALSE
    /\ now = 0
    /\ latch = closer
    /\ driver = [state |-> "serving", deadline |-> None]
    /\ live = {}
    /\ abandoned = {}
    /\ conns = <<>>
    /\ failMark = 0
    /\ sendCount = 0
    /\ firedAt = None
    /\ reqs = 0
    /\ counter = 0
    /\ recorded = 0
    /\ snapshots = <<>>
    /\ prom_export = EmptyString
    /\ scraped = None
    /\ txt = text
    /\ parsed = None
    /\ binds = <<>>
    /\ holders = {}
    /\ firedMark = None

\* The main thread is about to call into_app on cfg.
InitOf(cfg) == InitWith(cfg, None, "build")

\* Before the build: any structure of routers with any pattern of failing
\* translations, or a valid one with any admin block and buffer size.
Init ==
    \/ \E st \in StructSeqs : \E f \in Faults(st) :
          InitOf([admin |-> None, routers |-> MkRouters(st, f), buffer_size_bytes |-> None])
    \/ \E cfg \in AdminConfigs : InitOf(cfg)

\* The process is up: the main thread has not panicked or exited.
ProcUp == servingPc \notin {"panicked", "exit"} /\ driver.state # "terminated"

\* ------------------------------------------------------ AppConfig::from_str
\* A configuration text is a sequence of tokens: "ws" whitespace, the braces,
\* and one token per field with its value: "routers" (a list of one router),
\* "admin" (an admin block with every field omitted), "admin_foo" (an admin
\* block with an unrecognized field) and "foo" (an unrecognized field).
Chars == {"ws", "{", "}", "routers", "admin", "admin_foo", "foo"}
Texts == UNION { [1..n -> Chars] : n \in 0..MaxText }

\* str::trim_start
RECURSIVE trim_start(_)
trim_start(t) == IF t # <<>> /\ Head(t) = "ws" THEN trim_start(Tail(t)) ELSE t

RECURSIVE trim_end(_)
trim_end(t) ==
    IF t # <<>> /\ t[Len(t)] = "ws" THEN trim_end(SubSeq(t, 1, Len(t) - 1)) ELSE t

\* str::starts_with
starts_with(t, c) == t # <<>> /\ Head(t) = c

IsKey(c) == c \notin {"ws", "{", "}"}
IsBrace(c) == c \in {"{", "}"}

\* #[serde(deny_unknown_fields)] struct AppConfig, from the keys of a mapping:
\* an unrecognized or repeated field and a missing `routers` are errors.
Deserialize(keys, kind) ==
    IF \E k \in 1..Len(keys) : keys[k] \in {"foo", "admin_foo"} THEN Err(kind, 0)
    ELSE IF \E j, k \in 1..Len(keys) : j # k /\ keys[j] = keys[k] THEN Err(kind, 0)
    ELSE IF ~\E k \in 1..Len(keys) : keys[k] = "routers" THEN Err(kind, 0)
    ELSE Ok([admin |-> IF \E k \in 1..Len(keys) : keys[k] = "admin"
                      THEN Some(AdminAllOmitted) ELSE None,
             routers |-> MkRouters(<<RunStruct>>, NoFault),
             buffer_size_bytes |-> None])

\* A mapping written between braces: "{" fields "}".
FlowMapping(t) ==
    /\ Len(t) >= 2
    /\ t[1] = "{"
    /\ t[Len(t)] = "}"
    /\ \A k \in 2..(Len(t) - 1) : ~IsBrace(t[k])

\* serde_json::from_str: one object, whitespace allowed around and inside it.
serde_json_from_str(t) ==
    LET doc == trim_end(trim_start(t))
    IN  IF FlowMapping(doc) THEN Deserialize(SelectSeq(doc, IsKey), "Json")
        ELSE Err("Json", 0)

\* serde_yaml::from_str: a mapping in flow style (between braces) or in block
\* style (the fields alone).
serde_yaml_from_str(t) ==
    LET doc == trim_end(trim_start(t))
    IN  IF FlowMapping(doc) THEN Deserialize(SelectSeq(doc, IsKey), "Yaml")
        ELSE IF \E k \in 1..Len(doc) : IsBrace(doc[k]) THEN Err("Yaml", 0)
        ELSE Deserialize(SelectSeq(doc, IsKey), "Yaml")

\* Variant of from_str that looks at the first character of the untrimmed text.
from_str_untrimmed(t) ==
    IF starts_with(t, "{") THEN serde_json_from_str(t) ELSE serde_yaml_from_str(t)
from_str(t) ==
    LET trimmed == trim_start(t)
    IN  IF starts_with(trimmed, "{")
        THEN serde_json_from_str(trimmed)
        ELSE serde_yaml_from_str(trimmed)

\* No AppConfig yet: from_str has not returned one.
NoConfig == [admin |-> None, routers |-> <<>>, buffer_size_bytes |-> None]

\* The main thread is about to parse a configuration text.
InitParse == \E t \in Texts : InitWith(NoConfig, Some(t), "parse")

\* main: the text is parsed; an error ends the process before any build.
FromStr ==
    /\ servingPc = "parse"
    /\ parsed' = Some(from_str(txt[1]))
    /\ config' = IF parsed'[1].ok THEN parsed'[1].val ELSE config
    /\ servingPc' = IF parsed'[1].ok THEN "build" ELSE "exit"
    /\ UNCHANGED <<app, spawning, bound, adminPc, resolvers, polling, reporting,
                   adminListener, latch>>
    /\ UNCHANGED <<runVars, metricsVars, txt, binds, holders, firedMark>>

\* ------------------------------------------------------------------ startup
\* main: config.into_app().  On an error main exits; on success the routers go
\* to the serving thread and the AdminRunner to the admin thread.
IntoApp ==
    /\ servingPc = "build"
    /\ app' = into_app(config)
    /\ spawning' = app'.routers
    /\ servingPc' = IF app'.state = "ok" THEN "spawning" ELSE "exit"
    /\ adminPc' = IF app'.state = "ok" THEN "start" ELSE "none"
    /\ UNCHANGED <<config, bound, resolvers, polling, reporting, adminListener, latch>>
    /\ UNCHANGED <<runVars, metricsVars>>
    /\ UNCHANGED <<parseVars, binds, holders, firedMark>>

\* unbound.bind(reactor, timer): the bound server task for an Unbound.
bind(unbound) == [listen |-> unbound.listen, rt |-> unbound.rt, buf |-> unbound.buf]

\* Variant of pop_front that takes the last item.
pop_back(q) == [item |-> q[Len(q)], rest |-> SubSeq(q, 1, Len(q) - 1)]
\* VecDeque::pop_front on a queue that is not empty.
pop_front(q) == [item |-> Head(q), rest |-> Tail(q)]

\* Variant of SpawnServer that goes on with the next server after a failed bind.
SpawnServer_skip_failed ==
    /\ ProcUp
    /\ servingPc = "spawning"
    /\ spawning # <<>>
    /\ Head(spawning).servers # <<>>
    /\ LET self == Head(spawning)
           popped == pop_front(self.servers)
           unbound == popped.item
       IN  \E bindOk \in BOOLEAN :
             IF bindOk
             THEN /\ bound' = Append(bound, bind(unbound))
                  /\ spawning' = <<[self EXCEPT !.servers = popped.rest]>> \o Tail(spawning)
                  /\ servingPc' = servingPc
                  /\ binds' = Append(binds, [listen |-> unbound.listen, ok |-> TRUE])
             ELSE /\ servingPc' = servingPc
                  /\ binds' = Append(binds, [listen |-> unbound.listen, ok |-> FALSE])
                  /\ spawning' = <<[self EXCEPT !.servers = popped.rest]>> \o Tail(spawning)
                  /\ UNCHANGED bound
    /\ UNCHANGED <<config, app, adminPc, resolvers, polling, reporting, adminListener, latch>>
    /\ UNCHANGED <<runVars, metricsVars>>
    /\ UNCHANGED <<parseVars, holders, firedMark>>

\* RouterSpawner::spawn, one iteration of `while let Some(unbound) = pop_front()`:
\* bind the server (a failure panics at expect) and launch it on the reactor.
SpawnServer ==
    /\ ProcUp
    /\ servingPc = "spawning"
    /\ spawning # <<>>
    /\ Head(spawning).servers # <<>>
    /\ LET self == Head(spawning)
           popped == pop_front(self.servers)
           unbound == popped.item
       IN  \E bindOk \in BOOLEAN :
             IF bindOk
             THEN /\ bound' = Append(bound, bind(unbound))
                  /\ spawning' = <<[self EXCEPT !.servers = popped.rest]>> \o Tail(spawning)
                  /\ servingPc' = servingPc
                  /\ binds' = Append(binds, [listen |-> unbound.listen, ok |-> TRUE])
             ELSE /\ servingPc' = "panicked"
                  /\ binds' = Append(binds, [listen |-> unbound.listen, ok |-> FALSE])
                  /\ UNCHANGED <<bound, spawning>>
    /\ UNCHANGED <<config, app, adminPc, resolvers, polling, reporting, adminListener, latch>>
    /\ UNCHANGED <<runVars, metricsVars>>
    /\ UNCHANGED <<parseVars, holders, firedMark>>

\* RouterSpawner::spawn returns Ok(()) once its queue is empty.
SpawnReturn ==
    /\ ProcUp
    /\ servingPc = "spawning"
    /\ spawning # <<>>
    /\ Head(spawning).servers = <<>>
    /\ spawning' = Tail(spawning)
    /\ UNCHANGED <<config, app, servingPc, bound, adminPc, resolvers, polling, reporting,
                   adminListener, latch>>
    /\ UNCHANGED <<runVars, metricsVars>>
    /\ UNCHANGED <<parseVars, binds, holders, firedMark>>

\* main: every router is spawned; the serving reactor runs until the latch fires.
ServeStart ==
    /\ ProcUp
    /\ servingPc = "spawning"
    /\ spawning = <<>>
    /\ servingPc' = "running"
    /\ live' = 1..Len(bound)
    /\ UNCHANGED <<config, app, spawning, bound, adminPc, resolvers, polling, reporting,
                   adminListener, latch>>
    /\ UNCHANGED <<now, driver, abandoned, conns, failMark, sendCount, firedAt, reqs>>
    /\ UNCHANGED metricsVars
    /\ UNCHANGED <<parseVars, binds, holders, firedMark>>

\* AdminRunner::run: `let AdminRunner { .. } = self`.
AdminRunStart ==
    /\ ProcUp
    /\ adminPc = "start"
    /\ resolvers' = app.admin[1].resolvers
    /\ adminPc' = "resolvers"
    /\ UNCHANGED <<config, app, servingPc, spawning, bound, polling, reporting,
                   adminListener, latch>>
    /\ UNCHANGED <<runVars, metricsVars>>
    /\ UNCHANGED <<parseVars, binds, holders, firedMark>>

\* AdminRunner::run: one iteration of `while let Some(resolver) = pop_front()`.
AdminSpawnResolver ==
    /\ ProcUp
    /\ adminPc = "resolvers"
    /\ resolvers # <<>>
    /\ polling' = Append(polling, Head(resolvers))
    /\ resolvers' = Tail(resolvers)
    /\ UNCHANGED <<config, app, servingPc, spawning, bound, adminPc, reporting,
                   adminListener, latch>>
    /\ UNCHANGED <<runVars, metricsVars>>
    /\ UNCHANGED <<parseVars, binds, holders, firedMark>>

\* Variant of AdminSpawnReporting that does not wait for the queue to drain.
AdminSpawnReporting_early ==
    /\ ProcUp
    /\ adminPc = "resolvers"
    /\ reporting' = TRUE
    /\ adminPc' = "bind"
    /\ UNCHANGED <<config, app, servingPc, spawning, bound, resolvers, polling,
                   adminListener, latch>>
    /\ UNCHANGED <<runVars, metricsVars>>
    /\ UNCHANGED <<parseVars, binds, holders, firedMark>>

\* AdminRunner::run: handle.spawn(reporting).
AdminSpawnReporting ==
    /\ ProcUp
    /\ adminPc = "resolvers"
    /\ resolvers = <<>>
    /\ reporting' = TRUE
    /\ adminPc' = "bind"
    /\ UNCHANGED <<config, app, servingPc, spawning, bound, resolvers, polling,
                   adminListener, latch>>
    /\ UNCHANGED <<runVars, metricsVars>>
    /\ UNCHANGED <<parseVars, binds, holders, firedMark>>

\* Dropping the Closer without a send cancels the channel.
Closer_drop(ch) == IF ch.tx = "held" THEN [ch EXCEPT !.tx = "dropped"] ELSE ch

\* AdminRunner::run: TcpListener::bind(..).expect("unable to listen"); on success
\* the Admin handler is built around the closer and the accept loop starts.
AdminBind ==
    /\ ProcUp
    /\ adminPc = "bind"
    /\ \E bindOk \in BOOLEAN :
         IF bindOk
         THEN /\ adminListener' = TRUE
              /\ adminPc' = "serving"
              /\ latch' = latch
         ELSE /\ adminPc' = "panicked"
              /\ latch' = Closer_drop(latch)
              /\ UNCHANGED adminListener
    /\ UNCHANGED <<config, app, servingPc, spawning, bound, resolvers, polling, reporting>>
    /\ UNCHANGED <<runVars, metricsVars>>
    /\ UNCHANGED <<parseVars, binds, holders, firedMark>>

NextStartup ==
    \/ IntoApp
    \/ SpawnServer
    \/ SpawnReturn
    \/ ServeStart
    \/ AdminRunStart
    \/ AdminSpawnResolver
    \/ AdminSpawnReporting
    \/ AdminBind

Spec == Init /\ [][NextStartup]_vars

NextParse ==
    \/ FromStr
    \/ IntoApp

SpecParse == InitParse /\ [][NextParse]_vars

\* -------------------------------------------------------- the running process
\* The servers of every spawner, bound in spawn order.
RECURSIVE AllBound(_)
AllBound(routers) ==
    IF routers = <<>> THEN <<>>
    ELSE [j \in 1..Len(Head(routers).servers) |-> bind(Head(routers).servers[j])]
         \o AllBound(Tail(routers))

\* The calls of bind that bound every server of every spawner.
AllBinds(routers) ==
    [k \in 1..Len(AllBound(routers)) |-> [listen |-> AllBound(routers)[k].listen, ok |-> TRUE]]

\* The state once startup has completed without a failure: every server is
\* bound and running, every executor polls, the admin listener accepts.
InitRun ==
    \E cfg \in RunConfigs :
      LET a == into_app(cfg)
      IN  /\ config = cfg
          /\ app = a
          /\ servingPc = "running"
          /\ spawning = <<>>
          /\ bound = AllBound(a.routers)
          /\ adminPc = "serving"
          /\ resolvers = <<>>
          /\ polling = a.admin[1].resolvers
          /\ reporting = TRUE
          /\ adminListener = TRUE
          /\ now = 0
          /\ latch = closer
          /\ driver = [state |-> "serving", deadline |-> None]
          /\ live = 1..Len(bound)
          /\ abandoned = {}
          /\ conns = <<>>
          /\ failMark = 0
          /\ sendCount = 0
          /\ firedAt = None
          /\ reqs = 0
          /\ counter = 0
          /\ recorded = 0
          /\ snapshots = <<>>
          /\ prom_export = EmptyString
          /\ scraped = None
          /\ txt = None
          /\ parsed = None
          /\ binds = AllBinds(a.routers)
          /\ holders = {}
          /\ firedMark = None

\* Variant of Closer_send whose sender can be used again.
Closer_send_again(ch, t) == [ch EXCEPT !.tx = "sent", !.slot = Some(t)]
\* oneshot::Sender::send: the single send of a held sender fills the slot;
\* a sender that is gone sends nothing.
Closer_send(ch, t) ==
    IF ch.tx = "held" THEN [ch EXCEPT !.tx = "sent", !.slot = Some(t)] ELSE ch

\* Variant of Closed_poll that reports a deadline before any was sent.
Closed_poll_eager(ch) ==
    IF ch.slot # None THEN [r |-> "ready", val |-> ch.slot]
    ELSE IF ch.rx = "waiting" THEN [r |-> "ready", val |-> Some(0)]
    ELSE [r |-> "pending", val |-> None]
\* Variant of Closed_poll that never sees the value.
Closed_poll_never(ch) == [r |-> "pending", val |-> None]
\* oneshot::Receiver::poll: ready with the value sent, canceled when the sender
\* was dropped unsent, pending otherwise.
Closed_poll(ch) ==
    IF ch.slot # None THEN [r |-> "ready", val |-> ch.slot]
    ELSE IF ch.tx = "dropped" THEN [r |-> "canceled", val |-> None]
    ELSE [r |-> "pending", val |-> None]

\* The grace handed to Admin::new: the AdminRunner's grace field.
AdminGrace == app.admin[1].grace

\* The deadline carried by the latch once it has fired.
SentDeadline == IF firedAt = None THEN None ELSE Some(firedAt[1] + AdminGrace)

\* One second passes.  The clock is bounded before the latch fires; after it,
\* the driver takes its due steps before the clock passes the deadline.
Tick ==
    /\ ProcUp
    /\ IF firedAt = None THEN now < MaxTime ELSE now < SentDeadline[1]
    /\ now' = now + 1
    /\ UNCHANGED <<config, startupVars, latch, metricsVars>>
    /\ UNCHANGED <<driver, live, abandoned, conns, failMark, sendCount, firedAt, reqs>>
    /\ UNCHANGED <<parseVars, binds, holders, firedMark>>

\* The accept loop: listener.incoming().for_each(..) takes a connection and
\* spawns its serve future.
Accept ==
    /\ ProcUp
    /\ adminPc = "serving"
    /\ Len(conns) < MaxConns
    /\ conns' = Append(conns, "open")
    /\ UNCHANGED <<config, startupVars, latch, metricsVars>>
    /\ UNCHANGED <<driverVars, failMark, sendCount, firedAt, reqs>>
    /\ UNCHANGED <<parseVars, binds, holders, firedMark>>

\* Variant of reactor_run that also returns once the latch has fired.
reactor_run_until_fired(serving_done, fired) == serving_done \/ fired
\* reactor.run(serving) returns when the accept loop's future has completed,
\* and only then; `fired` tells whether the latch has been sent on.
reactor_run(serving_done, fired) == serving_done

\* The admin handler's shutdown endpoint on connection i: the deadline is
\* now + grace; the send happens only while the sender is still held.
ServeShutdown(i) ==
    /\ ProcUp
    /\ adminPc = "serving"
    /\ conns[i] \in {"open", "served"}
    /\ reqs < MaxReqs
    /\ reqs' = reqs + 1
    /\ conns' = [conns EXCEPT ![i] = "served"]
    /\ latch' = Closer_send(latch, now + AdminGrace)
    /\ sendCount' = IF latch' # latch THEN sendCount + 1 ELSE sendCount
    /\ firedAt' = IF firedAt = None /\ latch' # latch THEN Some(now) ELSE firedAt
    /\ firedMark' = IF firedMark = None /\ latch' # latch
                    THEN Some([conns |-> Len(conns), ticks |-> Len(snapshots)])
                    ELSE firedMark
    /\ adminPc' = IF reactor_run(FALSE, latch'.tx = "sent") THEN "returned" ELSE adminPc
    /\ UNCHANGED <<config, app, servingPc, spawning, bound, resolvers, polling, reporting,
                   adminListener, metricsVars>>
    /\ UNCHANGED <<driverVars, failMark>>
    /\ UNCHANGED <<parseVars, binds, holders>>

\* The serving driver receives the deadline and starts draining.
DriverRecv ==
    /\ ProcUp
    /\ servingPc = "running"
    /\ driver.state = "serving"
    /\ Closed_poll(latch).r = "ready"
    /\ driver' = [state |-> "draining", deadline |-> Closed_poll(latch).val]
    /\ latch' = [latch EXCEPT !.slot = None, !.rx = "received"]
    /\ UNCHANGED <<config, startupVars, metricsVars>>
    /\ UNCHANGED <<now, live, abandoned, conns, failMark, sendCount, firedAt, reqs>>
    /\ UNCHANGED <<parseVars, binds, holders, firedMark>>

\* A bound server finishes its in-flight work during the drain.
ServerFinish(s) ==
    /\ ProcUp
    /\ driver.state = "draining"
    /\ s \in live
    /\ live' = live \ {s}
    /\ UNCHANGED <<config, startupVars, latch, metricsVars>>
    /\ UNCHANGED <<now, driver, abandoned, conns, failMark, sendCount, firedAt, reqs>>
    /\ UNCHANGED <<parseVars, binds, holders, firedMark>>

\* The drain ends: every server has finished, or the deadline has elapsed
\* and the remaining servers are abandoned.
DriverTerminate ==
    /\ ProcUp
    /\ driver.state = "draining"
    /\ live = {} \/ now >= driver.deadline[1]
    /\ driver' = [driver EXCEPT !.state = "terminated"]
    /\ abandoned' = live
    /\ UNCHANGED <<config, startupVars, latch, metricsVars>>
    /\ UNCHANGED <<now, live, conns, failMark, sendCount, firedAt, reqs>>
    /\ UNCHANGED <<parseVars, binds, holders, firedMark>>

\* ------------------------------------------------------ admin connections
\* Variant of serve_outcome that hands the serve error to the accept loop.
serve_outcome_propagate(result) == IF result = "err" THEN "panicked" ELSE "serving"
\* What becomes of the accept loop when a spawned serve future ends with
\* `result`: map_err logs the error, map discards the value, and the for_each
\* closure has already returned Ok(()).
serve_outcome(result) == "serving"

\* Serving connection i fails: the error is logged.
ServeFail(i) ==
    /\ ProcUp
    /\ adminPc = "serving"
    /\ conns[i] \in {"open", "served"}
    /\ conns' = [conns EXCEPT ![i] = "failed"]
    /\ failMark' = IF failMark = 0 THEN Len(conns) ELSE failMark
    /\ adminPc' = serve_outcome("err")
    /\ UNCHANGED <<config, app, servingPc, spawning, bound, resolvers, polling, reporting,
                   adminListener, latch>>
    /\ UNCHANGED <<driverVars, sendCount, firedAt, reqs, metricsVars>>
    /\ UNCHANGED <<parseVars, binds, holders, firedMark>>

\* Serving connection i completes.
ServeClose(i) ==
    /\ ProcUp
    /\ adminPc = "serving"
    /\ conns[i] \in {"open", "served"}
    /\ conns' = [conns EXCEPT ![i] = "closed"]
    /\ adminPc' = serve_outcome("ok")
    /\ UNCHANGED <<config, app, servingPc, spawning, bound, resolvers, polling, reporting,
                   adminListener, latch>>
    /\ UNCHANGED <<driverVars, failMark, sendCount, firedAt, reqs, metricsVars>>
    /\ UNCHANGED <<parseVars, binds, holders, firedMark>>

\* listener.incoming() yields an error: for_each ends, reactor.run(serving)
\* returns Err and unwrap panics; the Admin handler and its closer are dropped.
ListenerError ==
    /\ ProcUp
    /\ adminPc = "serving"
    /\ adminPc' = "panicked"
    /\ adminListener' = FALSE
    /\ latch' = Closer_drop(latch)
    /\ UNCHANGED <<config, app, servingPc, spawning, bound, resolvers, polling, reporting>>
    /\ UNCHANGED <<runVars, metricsVars>>
    /\ UNCHANGED <<parseVars, binds, holders, firedMark>>

NextAdmin ==
    \/ Accept
    \/ \E i \in 1..Len(conns) : ServeShutdown(i)
    \/ \E i \in 1..Len(conns) : ServeFail(i)
    \/ \E i \in 1..Len(conns) : ServeClose(i)
    \/ ListenerError

SpecAdmin == InitRun /\ [][NextAdmin]_vars

\* Startup followed by the accept loop.
NextBoot ==
    \/ IntoApp
    \/ SpawnServer
    \/ SpawnReturn
    \/ ServeStart
    \/ AdminRunStart
    \/ AdminSpawnResolver
    \/ AdminSpawnReporting
    \/ AdminBind
    \/ Accept

SpecBoot == Init /\ [][NextBoot]_vars

NextRun ==
    \/ Tick
    \/ Accept
    \/ \E i \in 1..Len(conns) : ServeShutdown(i)
    \/ ListenerError
    \/ DriverRecv
    \/ \E s \in live : ServerFinish(s)
    \/ DriverTerminate

SpecRun == InitRun /\ [][NextRun]_vars

SpecLive ==
    /\ InitRun
    /\ [][NextRun]_vars
    /\ WF_vars(Tick)
    /\ WF_vars(DriverRecv)
    /\ WF_vars(DriverTerminate)

\* ------------------------------------------------------------ metrics export
\* Variant of Reporter_take that leaves the accumulated count in place.
Reporter_peek(count) == [report |-> count, rest |-> count]
\* reporter.take(): the report of what was accumulated, and what is left
\* accumulated after it (AdminConfig documents the interval as "snapshot (and
\* reset)").
Reporter_take(count) == [report |-> count, rest |-> 0]

\* Variant of String_clear that leaves the content in place.
String_clear_noop(buf) == buf
\* prom_export.clear()
String_clear(buf) == EmptyString
\* tacho::prometheus::write(&mut buf, &report): appends the rendering.
prometheus_write(buf, report) == Append(buf, [name |-> "l5d", value |-> report])

\* A metric is recorded by a running server.
Record ==
    /\ ProcUp
    /\ servingPc = "running"
    /\ recorded < MaxCount
    /\ counter' = counter + 1
    /\ recorded' = recorded + 1
    /\ UNCHANGED <<config, startupVars, latch, runVars>>
    /\ UNCHANGED <<snapshots, prom_export, scraped>>
    /\ UNCHANGED <<parseVars, binds, holders, firedMark>>

\* One firing of timer.interval(metrics_interval): take the report, clear the
\* buffer and write the report into it.
MetricsTick ==
    /\ ProcUp
    /\ adminPc = "serving"
    /\ reporting
    /\ Len(snapshots) < MaxTicks
    /\ LET taken == Reporter_take(counter)
       IN  /\ counter' = taken.rest
           /\ snapshots' = Append(snapshots, taken.report)
           /\ prom_export' = prometheus_write(String_clear(prom_export), taken.report)
    /\ UNCHANGED <<config, startupVars, latch, runVars>>
    /\ UNCHANGED <<recorded, scraped>>
    /\ UNCHANGED <<parseVars, binds, holders, firedMark>>

\* The admin handler's metrics endpoint on connection i: the response body is
\* the buffer's content.
ServeScrape(i) ==
    /\ ProcUp
    /\ adminPc = "serving"
    /\ conns[i] \in {"open", "served"}
    /\ conns' = [conns EXCEPT ![i] = "served"]
    /\ scraped' = Some(prom_export)
    /\ UNCHANGED <<config, startupVars, latch>>
    /\ UNCHANGED <<driverVars, failMark, sendCount, firedAt, reqs>>
    /\ UNCHANGED <<counter, recorded, snapshots, prom_export>>
    /\ UNCHANGED <<parseVars, binds, holders, firedMark>>

NextMetrics ==
    \/ Record
    \/ MetricsTick
    \/ Accept
    \/ \E i \in 1..Len(conns) : ServeScrape(i)

SpecMetrics == InitRun /\ [][NextMetrics]_vars

\* The admin context around a shutdown request: the accept loop, the two
\* endpoints and the metrics-export task, with the serving driver's drain.
NextGrace ==
    \/ Accept
    \/ \E i \in 1..Len(conns) : ServeShutdown(i)
    \/ \E i \in 1..Len(conns) : ServeScrape(i)
    \/ MetricsTick
    \/ ListenerError
    \/ DriverRecv
    \/ DriverTerminate

SpecGrace == InitRun /\ [][NextGrace]_vars

\* ------------------------------------------------- the shared transfer buffer
\* Variant of RefCell_borrow_mut that keeps no borrow flag.
RefCell_borrow_mut_unchecked(cur) == TRUE
\* RefCell::borrow_mut on the buffer cell: granted when `cur`, the borrows of
\* that cell still alive, is empty; a panic otherwise.
RefCell_borrow_mut(cur) == cur = {}

\* The live borrows of the allocation server s's buffer refers to.
SameBuffer(s) == { h \in holders : bound[h].buf.ptr = bound[s].buf.ptr }

\* A copy operation of server s takes the buffer.  Whether a copy gives the
\* buffer back before it next suspends is the server's choice: every
\* interleaving of begins and ends is allowed here.
CopyBegin(s) ==
    /\ ProcUp
    /\ servingPc = "running"
    /\ s \in live
    /\ IF RefCell_borrow_mut(SameBuffer(s))
       THEN holders' = holders \cup {s} /\ servingPc' = servingPc
       ELSE holders' = holders /\ servingPc' = "panicked"
    /\ UNCHANGED <<config, app, spawning, bound, adminPc, resolvers, polling, reporting,
                   adminListener, latch>>
    /\ UNCHANGED <<runVars, metricsVars, parseVars, binds, firedMark>>

\* The copy operation of server s ends: its borrow is dropped.
CopyEnd(s) ==
    /\ ProcUp
    /\ servingPc = "running"
    /\ s \in holders
    /\ holders' = holders \ {s}
    /\ UNCHANGED <<config, startupVars, latch>>
    /\ UNCHANGED <<runVars, metricsVars, parseVars, binds, firedMark>>

NextCopy ==
    \/ Tick
    \/ Record
    \/ \E s \in live : CopyBegin(s)
    \/ \E s \in holders : CopyEnd(s)

SpecCopy == InitRun /\ [][NextCopy]_vars

\* ------------------------------------------------------------------ claims
\* The deadline the latch carries: in the channel until received, then with
\* the driver.
LatchDeadline == IF latch.slot # None THEN latch.slot ELSE driver.deadline

\* C1: over any sequence of admin shutdown requests exactly the first one
\* sends on the latch; a later request leaves the admin server running and
\* the deadline already sent unchanged.
C1_LatchFiresOnce ==
    [][ /\ sendCount' <= 1
        /\ (reqs' # reqs) =>
              /\ adminPc' = "serving"
              /\ (sendCount' = sendCount + 1) <=> (reqs = 0)
        /\ (sendCount >= 1) => (LatchDeadline' = LatchDeadline) ]_vars

C1_Witness ==
    /\ reqs >= 2
    /\ sendCount = 1
    /\ adminPc = "serving"
    /\ LatchDeadline = Some(firedAt[1] + AdminGrace)

\* The state of the shutdown protocol: 1 Running, 2 ShutdownRequested,
\* 3 Draining, 4 Terminated.
Phase ==
    CASE driver.state = "terminated" -> 4
      [] driver.state = "draining" -> 3
      [] driver.state = "serving" /\ latch.tx = "sent" -> 2
      [] OTHER -> 1

\* C2: the protocol moves only forward, one state at a time; Running is left
\* only by an admin shutdown request, and a request made after Running was
\* left changes nothing of the protocol.
C2_ForwardOnly ==
    [][ /\ Phase' \in {Phase, Phase + 1}
        /\ (Phase = 1 /\ Phase' # 1) => (reqs' = reqs + 1 /\ sendCount' = sendCount + 1)
        /\ (Phase > 1 /\ reqs' # reqs) => UNCHANGED <<latch, driver, live, abandoned>> ]_vars

C2_Witness == Phase = 4 /\ reqs >= 2 /\ sendCount = 1

ExpectedGrace ==
    IF config.admin = None THEN 10
    ELSE IF config.admin[1].grace_secs = None THEN 10
    ELSE config.admin[1].grace_secs[1]

\* C4: the deadline the driver receives is the time of the request plus the
\* grace resolved at build time (graceSecs, or 10 when omitted).
C4_Deadline ==
    /\ AdminGrace = ExpectedGrace
    /\ latch.slot # None => latch.slot = Some(firedAt[1] + ExpectedGrace)
    /\ driver.deadline # None =>
          /\ firedAt # None
          /\ driver.deadline = Some(firedAt[1] + ExpectedGrace)

C4_Witness ==
    /\ driver.deadline # None
    /\ config.admin = None
    /\ firedAt[1] > 0
    /\ driver.deadline[1] = firedAt[1] + 10

\* C5: a successful build of N routers returns N spawners and N executors,
\* the i-th of each made from the i-th declared router.
C5_Topology ==
    app.state = "ok" =>
      LET N == Len(config.routers)
      IN  /\ Len(app.routers) = N
          /\ Len(app.admin[1].resolvers) = N
          /\ \A i \in 1..N :
               /\ app.routers[i].rt = config.routers[i].label
               /\ app.admin[1].resolvers[i].rt = config.routers[i].label
               /\ Len(app.routers[i].servers) = Len(config.routers[i].servers)
               /\ \A j \in 1..Len(config.routers[i].servers) :
                    app.routers[i].servers[j].listen = config.routers[i].servers[j].port

C5_Witness ==
    /\ app.state = "ok"
    /\ Len(config.routers) >= 2
    /\ Len(app.admin[1].resolvers) >= 2

\* The first translation of a router configuration that fails, "none" if all
\* succeed: the interpreter, then the connector, then the servers.
RouterFault(rc) ==
    IF ~rc.interpreter.valid THEN "Interpreter"
    ELSE IF rc.client # None /\ ~rc.client[1].valid THEN "Connector"
    ELSE IF \E j \in 1..Len(rc.servers) : ~rc.servers[j].valid THEN "Server"
    ELSE "none"
Faulty == { i \in 1..Len(config.routers) : RouterFault(config.routers[i]) # "none" }
FirstFaulty == CHOOSE i \in Faulty : \A k \in Faulty : i <= k

\* C6: when the translation of any router fails, into_app returns that error
\* and nothing built from the earlier routers.
C6_NoPartialApp ==
    (app.state # "none" /\ Faulty # {}) =>
      /\ app.state = "err"
      /\ app.err = Some([kind |-> RouterFault(config.routers[FirstFaulty]),
                         rt |-> config.routers[FirstFaulty].label])
      /\ app.routers = <<>>
      /\ app.admin = None
      /\ spawning = <<>>
      /\ adminPc = "none"

C6_Witness ==
    /\ app.state = "err"
    /\ Faulty # {}
    /\ FirstFaulty = 2
    /\ config.routers[1].servers # <<>>
    /\ app.err[1].kind = "Server"
    /\ config.routers[2].servers[1].valid

\* C7: a listener is bound or a polling task launched only after the whole
\* configuration was translated successfully; a failed build opens nothing.
C7_NoSocketBeforeBuild ==
    /\ (bound # <<>> \/ adminListener \/ polling # <<>>) =>
          (app.state = "ok" /\ Faulty = {})
    /\ app.state \in {"none", "err", "panic"} =>
          (bound = <<>> /\ ~adminListener /\ polling = <<>>)

C7_Witness ==
    /\ bound # <<>>
    /\ adminListener
    /\ polling # <<>>
    /\ Len(config.routers) >= 2

\* C8: a failure serving one admin connection ends that connection only: the
\* accept loop keeps running and every other connection is left as it was.
C8_ServeFailureIsolated ==
    /\ [](adminListener => adminPc = "serving")
    /\ [][ \A i \in 1..Len(conns) :
             (conns[i] # "failed" /\ conns'[i] = "failed") =>
                /\ adminPc' = "serving"
                /\ Len(conns') = Len(conns)
                /\ \A j \in (1..Len(conns)) \ {i} : conns'[j] = conns[j] ]_vars

C8_Witness ==
    /\ failMark > 0
    /\ conns[failMark] = "failed"
    /\ \E j \in 1..Len(conns) : j > failMark /\ conns[j] = "served"

RECURSIVE SumSeq(_)
SumSeq(q) == IF q = <<>> THEN 0 ELSE Head(q) + SumSeq(Tail(q))

\* C9: every recorded count is reported by exactly one snapshot or is still
\* accumulated for the next one.
C9_SnapshotsPartition == SumSeq(snapshots) + counter = recorded

C9_Witness ==
    /\ Len(snapshots) = 3
    /\ snapshots[1] > 0
    /\ snapshots[2] > 0
    /\ counter = 0

\* The servers of the built App, in declaration order.
RECURSIVE AllServers(_)
AllServers(routers) ==
    IF routers = <<>> THEN <<>> ELSE Head(routers).servers \o AllServers(Tail(routers))

\* C10: every server of every router holds the one buffer allocated by the
\* build, of size bufferSizeBytes (16 KiB when omitted).
C10_SharedBuffer ==
    app.state = "ok" =>
      /\ app.buf.size = IF config.buffer_size_bytes = None THEN 16384
                        ELSE config.buffer_size_bytes[1]
      /\ \A k \in 1..Len(AllServers(app.routers)) : AllServers(app.routers)[k].buf = app.buf
      /\ \A k \in 1..Len(bound) : bound[k].buf = app.buf

C10_Witness ==
    /\ app.state = "ok"
    /\ config.buffer_size_bytes = None
    /\ Len(app.routers) >= 2
    /\ Len(app.routers[1].servers) >= 2
    /\ Len(app.routers[2].servers) >= 1
    /\ Len(bound) >= 3

\* C11: the shared transfer buffer is never held by two copy operations at
\* once, whatever the interleaving of the servers' copies.
C11_ExclusiveBuffer ==
    /\ Cardinality({ h \in holders : bound[h].buf = app.buf }) <= 1
    /\ \A s \in 1..Len(bound) : Cardinality(SameBuffer(s)) <= 1

C11_Witness ==
    /\ Len(bound) >= 2
    /\ holders = {2}
    /\ bound[1].buf = bound[2].buf
    /\ recorded > 0
    /\ servingPc = "running"

\* C13: each admin field is defaulted on its own: the address is (ip or
\* 127.0.0.1):(port or 9989), the grace graceSecs or 10, the metrics interval
\* metricsIntervalSecs or 60, whatever the other fields are; a present field
\* is never replaced by a default.
C13_AdminDefaults ==
    app.state = "ok" =>
      LET Field(f, d) ==
              IF config.admin = None THEN d
              ELSE IF config.admin[1][f] = None THEN d
              ELSE config.admin[1][f][1]
          runner == app.admin[1]
      IN  /\ runner.addr.ip = Field("ip", <<127, 0, 0, 1>>)
          /\ runner.addr.port = Field("port", 9989)
          /\ runner.grace = Field("grace_secs", 10)
          /\ runner.metrics_interval = Field("metrics_interval_secs", 60)

C13_Witness ==
    /\ app.state = "ok"
    /\ config.admin # None
    /\ config.admin[1].ip = None
    /\ config.admin[1].port = Some(8080)
    /\ config.admin[1].metrics_interval_secs = None
    /\ config.admin[1].grace_secs = Some(1)
    /\ app.admin[1].addr = [ip |-> <<127, 0, 0, 1>>, port |-> 8080]
    /\ app.admin[1].grace = 1
    /\ app.admin[1].metrics_interval = 60

\* The first character of the text that is not whitespace ("" if none).
FirstNonWs(t) ==
    LET ks == { k \in 1..Len(t) : t[k] # "ws" }
    IN  IF ks = {} THEN "" ELSE t[CHOOSE k \in ks : \A j \in ks : k <= j]

\* C14: from_str picks the parser from the first non-whitespace character
\* alone: "{" gives JSON and JSON errors, anything else YAML and YAML errors;
\* with an unrecognized field either parser fails and into_app is never
\* reached.
C14_FormatChoice ==
    parsed # None =>
      /\ ~parsed[1].ok =>
            /\ parsed[1].err[1].kind = IF FirstNonWs(txt[1]) = "{" THEN "Json" ELSE "Yaml"
            /\ app.state = "none"
            /\ servingPc = "exit"
      /\ (\E k \in 1..Len(txt[1]) : txt[1][k] \in {"foo", "admin_foo"}) => ~parsed[1].ok
      /\ (parsed[1].ok /\ FirstNonWs(txt[1]) = "{") =>
            trim_end(txt[1])[Len(trim_end(txt[1]))] = "}"

C14_Witness ==
    /\ parsed # None
    /\ txt[1] = <<"ws", "{", "foo", "}">>
    /\ parsed[1].err = Some([kind |-> "Json", rt |-> 0])
    /\ app.state = "none"

\* How many times x occurs in the queue q.
Count(q, x) == Cardinality({ k \in 1..Len(q) : q[k] = x })

\* The executor made for router rt.
ExecutorOf(rt) == [rt |-> rt]

\* The places that own router rt's executor: a spawner's slot, the
\* AdminRunner's queue (in the App until run takes it apart, then in run), or
\* a polling task on the admin reactor.
InSlots(rt) ==
    Cardinality({ i \in 1..Len(spawning) :
                    spawning[i].resolver_executor = Some(ExecutorOf(rt)) })
InRunner(rt) == IF adminPc = "start" THEN Count(app.admin[1].resolvers, ExecutorOf(rt)) ELSE 0
Owners(rt) ==
    InSlots(rt) + InRunner(rt) + Count(resolvers, ExecutorOf(rt)) + Count(polling, ExecutorOf(rt))
Stage(rt) ==
    IF Count(polling, ExecutorOf(rt)) > 0 THEN 3
    ELSE IF Count(resolvers, ExecutorOf(rt)) > 0 THEN 2
    ELSE IF InRunner(rt) > 0 THEN 1
    ELSE 0

\* C15: every executor has exactly one owner at any time and only moves
\* forward: out of its spawner's slot into the AdminRunner's queue during the
\* build, then into one polling task launched by run on the admin context.
\* After a successful build every slot is empty, spawn neither launches nor
\* changes an executor, and the serving context runs no polling task.
C15_ExecutorOwnership ==
    /\ [](app.state = "ok" =>
            /\ \A rt \in 1..Len(config.routers) : Owners(rt) = 1 /\ InSlots(rt) = 0
            /\ \A i \in 1..Len(app.routers) : app.routers[i].resolver_executor = None
            /\ \A k \in 1..Len(bound) : Count(app.admin[1].resolvers, bound[k]) = 0)
    /\ [][ /\ app.state = "ok" =>
                \A rt \in 1..Len(config.routers) : Stage(rt)' >= Stage(rt)
           /\ (bound' # bound \/ spawning' # spawning \/ servingPc' # servingPc) =>
                UNCHANGED <<resolvers, polling>>
           /\ polling' # polling =>
                /\ adminPc = "resolvers"
                /\ polling' = Append(polling, Head(resolvers)) ]_vars

C15_Witness ==
    /\ app.state = "ok"
    /\ Len(config.routers) >= 2
    /\ polling = <<ExecutorOf(1)>>
    /\ resolvers = <<ExecutorOf(2)>>
    /\ bound # <<>>
    /\ Owners(1) = 1
    /\ Owners(2) = 1

\* The spawners whose spawn has returned, and the servers of the spawner being
\* spawned that are no longer in its queue.
Returned == Len(app.routers) - Len(spawning)
Taken ==
    IF spawning = <<>> THEN <<>>
    ELSE SubSeq(app.routers[Returned + 1].servers, 1,
                Len(app.routers[Returned + 1].servers) - Len(Head(spawning).servers))

\* C16: spawn binds and launches its servers one at a time in declared
\* order, each at most once; when no bind fails it returns exactly when its
\* queue is empty and every queued server is launched, and it waits for no
\* launched server to finish.
C16_SpawnInOrder ==
    /\ []((app.state = "ok" /\ servingPc # "panicked") =>
            /\ bound = AllBound(SubSeq(app.routers, 1, Returned))
                          \o [k \in 1..Len(Taken) |-> bind(Taken[k])]
            /\ spawning # <<>> =>
                  Taken \o Head(spawning).servers = app.routers[Returned + 1].servers
            /\ servingPc = "running" => (spawning = <<>> /\ live = 1..Len(bound)))
    /\ [][ /\ Len(spawning') < Len(spawning) =>
                /\ Head(spawning).servers = <<>>
                /\ spawning' = Tail(spawning)
                /\ servingPc' = "spawning"
                /\ bound' = bound
                /\ bound = AllBound(SubSeq(app.routers, 1, Returned + 1))
           /\ (/\ servingPc = "spawning" /\ spawning # <<>>
               /\ bound' # bound \/ spawning' # spawning) =>
                IF Head(spawning).servers = <<>>
                THEN spawning' = Tail(spawning) /\ bound' = bound
                ELSE /\ bound' = Append(bound, bind(Head(Head(spawning).servers)))
                     /\ Len(spawning') = Len(spawning)
                     /\ Head(spawning').servers = Tail(Head(spawning).servers) ]_vars

C16_Witness ==
    /\ servingPc = "spawning"
    /\ Len(app.routers) = 2
    /\ Len(app.routers[1].servers) = 2
    /\ Len(spawning) = 1
    /\ Len(bound) = 3
    /\ bound[1].listen = config.routers[1].servers[1].port
    /\ bound[2].listen = config.routers[1].servers[2].port
    /\ bound[3].listen = config.routers[2].servers[1].port
    /\ live = {}

\* C17: a bind failure in spawn is final: the failed bind is not tried again,
\* no later server is bound or launched, and spawn does not return.
C17_BindFailureFatal ==
    /\ [](/\ \A j, k \in 1..Len(binds) : j # k => binds[j].listen # binds[k].listen
          /\ Len(bound) <= Len(binds)
          /\ \A k \in 1..Len(bound) : binds[k].ok /\ bound[k].listen = binds[k].listen
          /\ \A k \in 1..Len(binds) : ~binds[k].ok =>
                /\ k = Len(binds)
                /\ servingPc = "panicked"
                /\ spawning # <<>>
                /\ \E j \in 1..Len(app.routers[Returned + 1].servers) :
                      app.routers[Returned + 1].servers[j].listen = binds[k].listen)
    /\ [][ servingPc = "panicked" => UNCHANGED <<servingPc, bound, spawning, binds, live>> ]_vars

C17_Witness ==
    /\ servingPc = "panicked"
    /\ Len(binds) = 2
    /\ binds[1].ok
    /\ ~binds[2].ok
    /\ Len(bound) = 1
    /\ Len(app.routers[1].servers) = 2
    /\ Len(spawning) = 2
    /\ Len(spawning[2].servers) >= 1
    /\ polling # <<>>

\* C18: run launches every executor, in queue order until the queue is
\* empty, before it starts the metrics-export task, and starts that task
\* before it binds the admin listener; when the bind fails run fails for good
\* and no admin connection is ever accepted.
C18_RunOrder ==
    /\ [](/\ adminPc \notin {"none", "start"} =>
                polling \o resolvers = app.admin[1].resolvers
          /\ reporting => (resolvers = <<>> /\ polling = app.admin[1].resolvers)
          /\ adminListener => reporting
          /\ adminPc \in {"bind", "serving", "panicked"} => reporting
          /\ conns # <<>> => adminListener
          /\ adminPc = "panicked" => (~adminListener /\ conns = <<>>))
    /\ [][ adminPc = "panicked" => UNCHANGED <<adminPc, adminListener, conns>> ]_vars

C18_Witness ==
    /\ adminPc = "panicked"
    /\ reporting
    /\ Len(polling) = 2
    /\ polling = app.admin[1].resolvers
    /\ ~adminListener
    /\ conns = <<>>
    /\ servingPc = "running"

\* The rendering of one report, alone in the buffer.
Rendering(report) == <<[name |-> "l5d", value |-> report]>>
LatestRendering ==
    IF snapshots = <<>> THEN <<>> ELSE Rendering(snapshots[Len(snapshots)])

\* C19: the metrics-export buffer always holds exactly the rendering of the
\* latest snapshot (nothing before the first tick): a scrape never sees it
\* cleared but not refilled, nor two snapshots mixed; only steps of the admin
\* context read or write it.
C19_ExportBuffer ==
    /\ [](prom_export = LatestRendering)
    /\ [](scraped # None =>
            \/ scraped[1] = <<>>
            \/ \E k \in 1..Len(snapshots) : scraped[1] = Rendering(snapshots[k]))
    /\ [][ /\ scraped' # scraped =>
                /\ scraped' = Some(LatestRendering)
                /\ adminPc = "serving"
                /\ UNCHANGED <<prom_export, snapshots>>
           /\ prom_export' # prom_export =>
                /\ Len(snapshots') = Len(snapshots) + 1
                /\ adminPc = "serving"
                /\ UNCHANGED <<recorded, scraped, servingPc, bound, live>>
           /\ recorded' # recorded => UNCHANGED <<prom_export, scraped>> ]_vars

C19_Witness ==
    /\ Len(snapshots) = 2
    /\ snapshots[1] > 0
    /\ snapshots[1] # snapshots[2]
    /\ prom_export = Rendering(snapshots[2])
    /\ scraped = Some(Rendering(snapshots[2]))
    /\ Len(prom_export) = 1

\* C20: a shutdown request does not stop the admin context: once the latch
\* has fired the accept loop still accepts, the endpoints still serve and
\* the metrics-export task still ticks for as long as the process is up; run
\* ends only with the accept loop, never in the step of a shutdown request.
C20_AdminOutlivesShutdown ==
    /\ []((latch.tx = "sent" /\ adminPc = "serving" /\ ProcUp) =>
            /\ adminListener
            /\ reporting
            /\ Len(conns) < MaxConns => ENABLED Accept
            /\ Len(snapshots) < MaxTicks => ENABLED MetricsTick
            /\ \A i \in 1..Len(conns) :
                  conns[i] \in {"open", "served"} =>
                    /\ ENABLED ServeScrape(i)
                    /\ reqs < MaxReqs => ENABLED ServeShutdown(i))
    /\ [][ /\ reqs' # reqs =>
                (adminPc' = "serving" /\ adminListener' /\ reporting' /\ polling' = polling)
           /\ (adminPc = "serving" /\ adminPc' # "serving") =>
                (~adminListener' /\ reqs' = reqs /\ sendCount' = sendCount) ]_vars

C20_Witness ==
    /\ firedMark = Some([conns |-> 1, ticks |-> 0])
    /\ sendCount = 1
    /\ reqs >= 2
    /\ Len(conns) = 2
    /\ scraped # None
    /\ scraped[1] # <<>>
    /\ driver.state = "draining"
    /\ adminPc = "serving"

====
